---- MODULE Spec2Model ----
(***************************************************************************)
(* Credential resolution chain of src/github/token.ts: one invocation of   *)
(* setupGitHubToken, from the environment it starts in to the return of a  *)
(* credential or the failure exit.  Every await point of the code is one   *)
(* action; the outcome of each network call is chosen by the environment.  *)
(***************************************************************************)
EXTENDS Integers, Sequences, FiniteSets, TLC

VARIABLES env, pc, calls, outputs, returned, failed, exitCode, attempt,
          installationId, rehearsalToken, oidcToken, caught, thrown,
          envReads, lastExchange, lastIdToken

vars == <<env, pc, calls, outputs, returned, failed, exitCode, attempt,
          installationId, rehearsalToken, oidcToken, caught, thrown,
          envReads, lastExchange, lastIdToken>>

----------------------------------------------------------------------------
(* JavaScript values *)

\* the JavaScript value undefined (an unset environment variable, a missing field)
Undefined == "<undefined>"

\* the JSON / JavaScript value null
Null == "<null>"

\* a test for a defined value (`v !== undefined`) in place of truthiness
Truthy_DefinedOnly(v) == v # Undefined /\ v # Null

\* JavaScript truthiness of a string-or-undefined value: `if (v)`, `!v`, `a || b`
Truthy(v) == v # Undefined /\ v # Null /\ v # ""

\* JavaScript `a ?? b`
Coalesce(a, b) == IF a = Undefined \/ a = Null THEN b ELSE a

\* JavaScript `a || b`
OrElse(a, b) == IF Truthy(a) THEN a ELSE b

\* an Error object: its class name and its message
MkError(name, message) == [name |-> name, message |-> message]

\* no error
NoError == MkError("", "")

\* `${error}` of an Error object, as the fragments the template concatenates
ErrorToString(e) == <<e.name, ": ", e.message>>

----------------------------------------------------------------------------
(* Bounds and input domains *)

\* attempts the retry helper makes before it propagates the last failure
MaxAttempts == 2

\* values an environment variable holding a token or a key can have
EnvValues == {Undefined, "", "set"}

\* values of OVERRIDE_GITHUB_TOKEN
OverrideValues == {Undefined, "", "ghp_override"}

\* values of GITHUB_REPOSITORY
RepoValues == {Undefined, "", "octo/repo"}

\* identity tokens core.getIDToken can return
OidcTokens == {"jwt1", "jwt2"}

\* errors core.getIDToken can raise
OidcCauses == {"Unable to get ACTIONS_ID_TOKEN_REQUEST_URL env variable",
               "Failed to get ID Token"}

\* tokens the installation-token mint can yield
MintTokens == {"", "ghs_minted"}

\* installation ids the lookup can report
InstallationIds == {42}

\* outcomes of the installation lookup that are not a parsed success
LookupFailures == {"network error", "404", "500", "200 not json"}

----------------------------------------------------------------------------
(* The token-exchange endpoint's responses and exchangeForAppToken *)

\* values a string field of a JSON object can have (Undefined: field absent)
FieldValues == {Undefined, "", "abc123", "tok2"}

\* values of error.message in an error body
MessageValues == {Undefined, Null, "", "bad audience"}

\* a response body: text that is not JSON, the JSON value null, or a JSON
\* object with the fields token, app_token and error (error: absent, null,
\* a string, or an object with the field message)
MkBody(kind, token, app_token, error, message) ==
    [kind |-> kind, token |-> token, app_token |-> app_token,
     error |-> error, message |-> message]

\* the body that is not JSON (an HTML error page, an empty body)
NotJsonBody == MkBody("notjson", Undefined, Undefined, "undefined", Undefined)

\* the body `null`
NullBody == MkBody("null", Undefined, Undefined, "undefined", Undefined)

\* success bodies: objects carrying token and/or app_token
TokenBodies ==
    {MkBody("object", t, a, "undefined", Undefined) :
        t \in FieldValues, a \in FieldValues}

\* error bodies: objects carrying error in each of its shapes
ErrorBodies ==
    {MkBody("object", Undefined, Undefined, e, Undefined) :
        e \in {"undefined", "null", "string"}}
    \cup {MkBody("object", Undefined, Undefined, "object", m) :
        m \in MessageValues}

\* responses of the exchange endpoint: HTTP ok or not, and a body
ExchangeResponses ==
    {[ok |-> TRUE, body |-> b] : b \in {NotJsonBody, NullBody} \cup TokenBodies}
    \cup {[ok |-> FALSE, body |-> b] :
            b \in {NotJsonBody, NullBody} \cup ErrorBodies}

\* the outcome of a call: a returned value or a raised error
Return(v) == [threw |-> FALSE, value |-> v, error |-> NoError]
Throw(e) == [threw |-> TRUE, value |-> Undefined, error |-> e]

\* the error response.json() raises on a body that is not JSON
JsonSyntaxError == MkError("SyntaxError", "Failed to parse JSON")

\* the error a property read on null raises
NullTypeError == MkError("TypeError", "null is not an object")

\* `responseJson?.error?.message` of a parsed body
ErrorMessageOf(body) ==
    IF body.kind = "null" THEN Undefined
    ELSE IF body.error = "object" THEN body.message
    ELSE Undefined

\* lines 31-41: the error raised for a non-success response
ExchangeFailure(body) ==
    IF body.kind = "notjson" THEN Throw(JsonSyntaxError)
    ELSE Throw(MkError("Error", Coalesce(ErrorMessageOf(body), "Unknown error")))

\* PickAppToken reading the field token alone
PickAppToken_TokenOnly(body) == body.token

\* line 47: `appTokenData.token || appTokenData.app_token`
PickAppToken(body) == OrElse(body.token, body.app_token)

\* lines 43-53: the result for a success response
ExchangeSuccess(body) ==
    IF body.kind = "notjson" THEN Throw(JsonSyntaxError)
    ELSE IF body.kind = "null" THEN Throw(NullTypeError)
    ELSE IF ~Truthy(PickAppToken(body))
         THEN Throw(MkError("Error", "App token not found in response"))
         ELSE Return(PickAppToken(body))

\* exchangeForAppToken, given the response fetch resolved with
exchangeForAppToken(resp) ==
    IF ~resp.ok THEN ExchangeFailure(resp.body) ELSE ExchangeSuccess(resp.body)

\* getOidcToken: the fixed error every failure of core.getIDToken becomes
\* (the source quotes id-token: write in backquotes; a TLA+ string cannot
\* hold one, so apostrophes stand for them)
OidcPermissionError ==
    MkError("Error", "Could not fetch an OIDC token. Did you remember to add 'id-token: write' to your workflow permissions?")

\* getOidcToken with a catch that logs and rethrows the error it caught
getOidcToken_Rethrow(outcome) == outcome

\* getOidcToken with a catch that logs and returns without a token
getOidcToken_Swallow(outcome) ==
    IF outcome.threw THEN Return("") ELSE Return(outcome.value)

\* getOidcToken, given the outcome of core.getIDToken
getOidcToken(outcome) ==
    IF outcome.threw THEN Throw(OidcPermissionError) ELSE Return(outcome.value)

\* line 163: the two remediation paths the failure message ends with
RemediationRehearsalApp ==
    "1. Rehearsal App is installed on this repository with REHEARSAL_APP_ID and REHEARSAL_APP_PRIVATE_KEY secrets set"
RemediationOidc ==
    "2. Or the Claude App integration is working with proper OIDC permissions"

\* the message setupGitHubToken passes to core.setFailed, as its fragments
SetFailedMessage(e) ==
    <<"Failed to setup GitHub token: ">> \o ErrorToString(e) \o
    <<".\n\nMake sure either:\n", RemediationRehearsalApp, "\n", RemediationOidc>>

----------------------------------------------------------------------------
(* The retry helper (utils/retry.ts) *)

\* retryWithBackoff: after `made` failed attempts the operation is invoked
\* again while the bounded attempt count is not used up; otherwise the last
\* failure propagates unchanged
ShouldRetry(made) == made < MaxAttempts

----------------------------------------------------------------------------
(* State *)

\* a recorded network operation: which one, what it was given, whether it succeeded
Call(op, arg, ok) == [op |-> op, arg |-> arg, ok |-> ok]

\* the operations of Strategy B and of Strategy C
StrategyBOps == {"appAuth", "installationLookup", "installationMint"}
StrategyCOps == {"getIDToken", "tokenExchange"}

\* the audience the identity token is requested for (line 9)
OidcAudience == "claude-code-github-action"

\* a published output (core.setOutput)
Output(name, value) == [name |-> name, value |-> value]

\* the process environment a run can start in
Environments ==
    [OVERRIDE_GITHUB_TOKEN : OverrideValues,
     REHEARSAL_APP_ID : EnvValues,
     REHEARSAL_APP_PRIVATE_KEY : EnvValues,
     GITHUB_REPOSITORY : RepoValues]

Init ==
    /\ env \in Environments
    /\ pc = "setupGitHubToken"
    /\ calls = <<>>
    /\ outputs = <<>>
    /\ returned = Undefined
    /\ failed = <<>>
    /\ exitCode = <<>>
    /\ attempt = 0
    /\ installationId = 0
    /\ rehearsalToken = Undefined
    /\ oidcToken = Undefined
    /\ caught = <<>>
    /\ thrown = [origin |-> "", error |-> NoError]
    /\ envReads = {}
    /\ lastExchange = [resp |-> [ok |-> TRUE, body |-> NullBody],
                       result |-> Return(Undefined), fetched |-> FALSE,
                       made |-> FALSE]
    /\ lastIdToken = Return(Undefined)

\* lines 135-136, 143-144, 159-160: publish the credential and return it
PublishAndReturn(token) ==
    /\ outputs' = Append(outputs, Output("GITHUB_TOKEN", token))
    /\ returned' = token
    /\ pc' = "returned"

\* a top-level catch that starts Strategy C over instead of reporting and exiting
FailAndExit_Retry(origin, e) ==
    /\ pc' = "getOidcToken"
    /\ UNCHANGED <<failed, exitCode, thrown>>

\* lines 161-165: the top-level catch reports the failure and exits
FailAndExit(origin, e) ==
    /\ failed' = Append(failed, SetFailedMessage(e))
    /\ exitCode' = Append(exitCode, 1)
    /\ thrown' = [origin |-> origin, error |-> e]
    /\ pc' = "exited"

\* lines 121-125 and 141, 147-149: generateRehearsalAppToken catches the
\* error and returns "", which setupGitHubToken finds empty and so goes on
\* to the OIDC request
CatchAndDecline(e) ==
    /\ caught' = Append(caught, e)
    /\ rehearsalToken' = ""
    /\ attempt' = 0
    /\ pc' = "getOidcToken"

\* Strategy A reading the override but going on to Strategy B all the same
CheckOverride_Ignored ==
    /\ pc = "setupGitHubToken"
    /\ envReads' = envReads \cup {"OVERRIDE_GITHUB_TOKEN"}
    /\ pc' = "generateRehearsalAppToken"
    /\ UNCHANGED <<env, calls, outputs, returned, failed, exitCode, attempt,
                   installationId, rehearsalToken, oidcToken, caught, thrown,
                   lastExchange, lastIdToken>>

\* Strategy A publishing the override without returning
CheckOverride_NoReturn ==
    /\ pc = "setupGitHubToken"
    /\ envReads' = envReads \cup {"OVERRIDE_GITHUB_TOKEN"}
    /\ outputs' = IF Truthy(env.OVERRIDE_GITHUB_TOKEN)
                  THEN Append(outputs, Output("GITHUB_TOKEN", env.OVERRIDE_GITHUB_TOKEN))
                  ELSE outputs
    /\ pc' = "generateRehearsalAppToken"
    /\ UNCHANGED <<env, calls, returned, failed, exitCode, attempt,
                   installationId, rehearsalToken, oidcToken, caught, thrown,
                   lastExchange, lastIdToken>>

\* lines 129-137: Strategy A
CheckOverride ==
    /\ pc = "setupGitHubToken"
    /\ envReads' = envReads \cup {"OVERRIDE_GITHUB_TOKEN"}
    /\ IF Truthy(env.OVERRIDE_GITHUB_TOKEN)
       THEN PublishAndReturn(env.OVERRIDE_GITHUB_TOKEN)
       ELSE /\ pc' = "generateRehearsalAppToken"
            /\ UNCHANGED <<outputs, returned>>
    /\ UNCHANGED <<env, calls, failed, exitCode, attempt, installationId,
                   rehearsalToken, oidcToken, caught, thrown, lastExchange,
                   lastIdToken>>

\* Strategy B's precondition declining only when both credentials are missing
CheckAppCredentials_BothMissing ==
    /\ pc = "generateRehearsalAppToken"
    /\ envReads' = envReads \cup {"REHEARSAL_APP_ID", "REHEARSAL_APP_PRIVATE_KEY"}
    /\ IF ~Truthy(env.REHEARSAL_APP_ID) /\ ~Truthy(env.REHEARSAL_APP_PRIVATE_KEY)
       THEN /\ rehearsalToken' = ""
            /\ pc' = "getOidcToken"
       ELSE /\ pc' = "appAuth"
            /\ UNCHANGED rehearsalToken
    /\ UNCHANGED <<env, calls, outputs, returned, failed, exitCode, attempt,
                   installationId, oidcToken, caught, thrown, lastExchange,
                   lastIdToken>>

\* lines 97-104 (and 140-141 for the decline): Strategy B's precondition
CheckAppCredentials ==
    /\ pc = "generateRehearsalAppToken"
    /\ envReads' = envReads \cup {"REHEARSAL_APP_ID", "REHEARSAL_APP_PRIVATE_KEY"}
    /\ IF ~Truthy(env.REHEARSAL_APP_ID) \/ ~Truthy(env.REHEARSAL_APP_PRIVATE_KEY)
       THEN /\ rehearsalToken' = ""
            /\ pc' = "getOidcToken"
       ELSE /\ pc' = "getInstallationId"
            /\ UNCHANGED rehearsalToken
    /\ UNCHANGED <<env, calls, outputs, returned, failed, exitCode, attempt,
                   installationId, oidcToken, caught, thrown, lastExchange,
                   lastIdToken>>

\* getInstallationId called outside the try: a missing repository is fatal
ReadRepository_Fatal ==
    /\ pc = "getInstallationId"
    /\ envReads' = envReads \cup {"GITHUB_REPOSITORY"}
    /\ IF ~Truthy(env.GITHUB_REPOSITORY)
       THEN /\ FailAndExit("getInstallationId",
                   MkError("Error", "GITHUB_REPOSITORY environment variable not found"))
            /\ UNCHANGED <<caught, rehearsalToken, attempt>>
       ELSE /\ pc' = "appAuth"
            /\ UNCHANGED <<caught, rehearsalToken, attempt, failed, exitCode, thrown>>
    /\ UNCHANGED <<env, calls, outputs, returned, installationId, oidcToken,
                   lastExchange, lastIdToken>>

\* lines 56-71: getInstallationId up to its first await, run inside the try
\* of generateRehearsalAppToken
ReadRepository ==
    /\ pc = "getInstallationId"
    /\ envReads' = envReads \cup {"GITHUB_REPOSITORY"}
    /\ IF ~Truthy(env.GITHUB_REPOSITORY)
       THEN CatchAndDecline(
                MkError("Error", "GITHUB_REPOSITORY environment variable not found"))
       ELSE IF ~Truthy(env.REHEARSAL_APP_ID) \/ ~Truthy(env.REHEARSAL_APP_PRIVATE_KEY)
       THEN CatchAndDecline(MkError("Error", "Rehearsal App credentials not found"))
       ELSE /\ pc' = "appAuth"
            /\ UNCHANGED <<caught, rehearsalToken, attempt>>
    /\ UNCHANGED <<env, calls, outputs, returned, failed, exitCode,
                   installationId, oidcToken, thrown, lastExchange,
                   lastIdToken>>

\* App-level authentication put under the retry helper
AppAuth_Retried ==
    /\ pc = "appAuth"
    /\ \E ok \in BOOLEAN :
        /\ calls' = Append(calls, Call("appAuth", env.REHEARSAL_APP_ID, ok))
        /\ IF ok
           THEN /\ pc' = "installationLookup"
                /\ attempt' = 0
                /\ UNCHANGED <<caught, rehearsalToken>>
           ELSE IF ShouldRetry(attempt + 1)
           THEN /\ attempt' = attempt + 1
                /\ UNCHANGED <<pc, caught, rehearsalToken>>
           ELSE CatchAndDecline(MkError("Error", "app authentication failed"))
    /\ UNCHANGED <<env, outputs, returned, failed, exitCode, installationId,
                   oidcToken, thrown, envReads, lastExchange, lastIdToken>>

\* lines 73-79: App-level authentication
AppAuth ==
    /\ pc = "appAuth"
    /\ \E ok \in BOOLEAN :
        /\ calls' = Append(calls, Call("appAuth", env.REHEARSAL_APP_ID, ok))
        /\ IF ok
           THEN /\ pc' = "installationLookup"
                /\ UNCHANGED <<caught, rehearsalToken, attempt>>
           ELSE CatchAndDecline(MkError("Error", "app authentication failed"))
    /\ UNCHANGED <<env, outputs, returned, failed, exitCode, installationId,
                   oidcToken, thrown, envReads, lastExchange,
                   lastIdToken>>

\* the installation lookup without the check of response.ok
InstallationLookup_NoStatusCheck ==
    /\ pc = "installationLookup"
    /\ \E ok \in BOOLEAN :
            calls' = Append(calls,
                Call("installationLookup", env.GITHUB_REPOSITORY, ok))
    /\ \E id \in InstallationIds : installationId' = id
    /\ pc' = "installationMint"
    /\ UNCHANGED <<env, outputs, returned, failed, exitCode, oidcToken,
                   thrown, envReads, lastExchange, lastIdToken, caught,
                   rehearsalToken, attempt>>

\* the installation lookup with its failure escaping generateRehearsalAppToken
InstallationLookup_Rethrow ==
    /\ pc = "installationLookup"
    /\ \/ \E f \in LookupFailures :
            /\ calls' = Append(calls,
                   Call("installationLookup", env.GITHUB_REPOSITORY, FALSE))
            /\ FailAndExit("getInstallationId", MkError("Error", f))
            /\ UNCHANGED <<installationId, caught, rehearsalToken, attempt>>
       \/ \E id \in InstallationIds :
            /\ calls' = Append(calls,
                   Call("installationLookup", env.GITHUB_REPOSITORY, TRUE))
            /\ installationId' = id
            /\ pc' = "installationMint"
            /\ UNCHANGED <<caught, rehearsalToken, attempt, failed, exitCode, thrown>>
    /\ UNCHANGED <<env, outputs, returned, oidcToken, envReads, lastExchange,
                   lastIdToken>>

\* lines 82-94: the installation lookup for the repository
InstallationLookup ==
    /\ pc = "installationLookup"
    /\ \/ \E f \in LookupFailures :
            /\ calls' = Append(calls,
                   Call("installationLookup", env.GITHUB_REPOSITORY, FALSE))
            /\ CatchAndDecline(MkError("Error", f))
            /\ UNCHANGED installationId
       \/ \E id \in InstallationIds :
            /\ calls' = Append(calls,
                   Call("installationLookup", env.GITHUB_REPOSITORY, TRUE))
            /\ installationId' = id
            /\ pc' = "installationMint"
            /\ UNCHANGED <<caught, rehearsalToken, attempt>>
    /\ UNCHANGED <<env, outputs, returned, failed, exitCode, oidcToken,
                   thrown, envReads, lastExchange,
                   lastIdToken>>

\* the mint whose token setupGitHubToken does not use: it goes on to OIDC
InstallationMint_TokenUnused ==
    /\ pc = "installationMint"
    /\ \/ /\ calls' = Append(calls,
                 Call("installationMint", env.REHEARSAL_APP_ID, FALSE))
          /\ CatchAndDecline(MkError("Error", "installation token request failed"))
       \/ \E token \in MintTokens :
            /\ calls' = Append(calls,
                   Call("installationMint", env.REHEARSAL_APP_ID, TRUE))
            /\ rehearsalToken' = token
            /\ pc' = "getOidcToken"
            /\ UNCHANGED <<caught, attempt>>
    /\ UNCHANGED <<env, outputs, returned, failed, exitCode, installationId,
                   oidcToken, thrown, envReads, lastExchange, lastIdToken>>

\* lines 112-125 and 140-145: the installation-token mint, and what
\* setupGitHubToken does with Strategy B's result
InstallationMint ==
    /\ pc = "installationMint"
    /\ \/ /\ calls' = Append(calls,
                 Call("installationMint", env.REHEARSAL_APP_ID, FALSE))
          /\ CatchAndDecline(MkError("Error", "installation token request failed"))
          /\ UNCHANGED <<outputs, returned>>
       \/ \E token \in MintTokens :
            /\ calls' = Append(calls,
                   Call("installationMint", env.REHEARSAL_APP_ID, TRUE))
            /\ rehearsalToken' = token
            /\ IF Truthy(token)
               THEN PublishAndReturn(token)
               ELSE /\ pc' = "getOidcToken"
                    /\ UNCHANGED <<outputs, returned>>
            /\ UNCHANGED <<caught, attempt>>
    /\ UNCHANGED <<env, failed, exitCode, installationId, oidcToken, thrown,
                   envReads, lastExchange,
                   lastIdToken>>

\* what core.getIDToken can do: return a token or raise
IdTokenOutcomes ==
    {Return(t) : t \in OidcTokens} \cup {Throw(MkError("Error", c)) : c \in OidcCauses}

\* line 149 (with 7-18): one attempt of the OIDC request under the retry helper
OidcAttempt ==
    /\ pc = "getOidcToken"
    /\ \E o \in IdTokenOutcomes :
        LET r == getOidcToken(o) IN
        /\ lastIdToken' = o
        /\ calls' = Append(calls, Call("getIDToken", OidcAudience, ~o.threw))
        /\ IF ~r.threw
           THEN /\ oidcToken' = r.value
                /\ attempt' = 0
                /\ pc' = "exchangeForAppToken"
                /\ UNCHANGED <<failed, exitCode, thrown>>
           ELSE IF ShouldRetry(attempt + 1)
           THEN /\ attempt' = attempt + 1
                /\ UNCHANGED <<pc, oidcToken, failed, exitCode, thrown>>
           ELSE /\ FailAndExit("getOidcToken", r.error)
                /\ UNCHANGED <<attempt, oidcToken>>
    /\ UNCHANGED <<env, outputs, returned, installationId, rehearsalToken,
                   caught, envReads, lastExchange>>

\* the error fetch raises when no response arrives
FetchError == MkError("TypeError", "fetch failed")

\* what one exchange attempt can meet: a response, or none
ExchangeOutcomes ==
    {[resp |-> x, result |-> exchangeForAppToken(x), fetched |-> TRUE,
      made |-> TRUE] : x \in ExchangeResponses}
    \cup {[resp |-> [ok |-> FALSE, body |-> NotJsonBody],
           result |-> Throw(FetchError), fetched |-> FALSE, made |-> TRUE]}

\* Strategy C retried as a whole: a failed exchange requests a new OIDC token
ExchangeAttempt_Refetch ==
    /\ pc = "exchangeForAppToken"
    /\ \E x \in ExchangeOutcomes :
        /\ lastExchange' = x
        /\ calls' = Append(calls, Call("tokenExchange", oidcToken, ~x.result.threw))
        /\ IF ~x.result.threw
           THEN /\ PublishAndReturn(x.result.value)
                /\ UNCHANGED <<attempt, failed, exitCode, thrown>>
           ELSE IF ShouldRetry(attempt + 1)
           THEN /\ attempt' = attempt + 1
                /\ pc' = "getOidcToken"
                /\ UNCHANGED <<outputs, returned, failed, exitCode, thrown>>
           ELSE /\ FailAndExit("exchangeForAppToken", x.result.error)
                /\ UNCHANGED <<attempt, outputs, returned>>
    /\ UNCHANGED <<env, installationId, rehearsalToken, oidcToken, caught,
                   envReads, lastIdToken>>

\* the token exchange posting without the identity token as its bearer
ExchangeAttempt_NoBearer ==
    /\ pc = "exchangeForAppToken"
    /\ \E x \in ExchangeOutcomes :
        /\ lastExchange' = x
        /\ calls' = Append(calls, Call("tokenExchange", Undefined, ~x.result.threw))
        /\ IF ~x.result.threw
           THEN /\ PublishAndReturn(x.result.value)
                /\ UNCHANGED <<attempt, failed, exitCode, thrown>>
           ELSE IF ShouldRetry(attempt + 1)
           THEN /\ attempt' = attempt + 1
                /\ UNCHANGED <<pc, outputs, returned, failed, exitCode, thrown>>
           ELSE /\ FailAndExit("exchangeForAppToken", x.result.error)
                /\ UNCHANGED <<attempt, outputs, returned>>
    /\ UNCHANGED <<env, installationId, rehearsalToken, oidcToken, caught,
                   envReads, lastIdToken>>

\* lines 153-160 (with 20-54): one attempt of the token exchange under the
\* retry helper, and the publication of its result
ExchangeAttempt ==
    /\ pc = "exchangeForAppToken"
    /\ \E x \in ExchangeOutcomes :
        /\ lastExchange' = x
        /\ calls' = Append(calls, Call("tokenExchange", oidcToken, ~x.result.threw))
        /\ IF ~x.result.threw
           THEN /\ PublishAndReturn(x.result.value)
                /\ UNCHANGED <<attempt, failed, exitCode, thrown>>
           ELSE IF ShouldRetry(attempt + 1)
           THEN /\ attempt' = attempt + 1
                /\ UNCHANGED <<pc, outputs, returned, failed, exitCode, thrown>>
           ELSE /\ FailAndExit("exchangeForAppToken", x.result.error)
                /\ UNCHANGED <<attempt, outputs, returned>>
    /\ UNCHANGED <<env, installationId, rehearsalToken, oidcToken, caught,
                   envReads, lastIdToken>>

Next ==
    \/ CheckOverride
    \/ CheckAppCredentials
    \/ ReadRepository
    \/ AppAuth
    \/ InstallationLookup
    \/ InstallationMint
    \/ OidcAttempt
    \/ ExchangeAttempt

Spec == Init /\ [][Next]_vars

\* every network call eventually returns or fails, so the step that awaits
\* it is eventually taken
FairSpec == Spec /\ WF_vars(Next)

----------------------------------------------------------------------------
(* Properties *)

\* a value that is a non-empty string
NonEmpty(v) == v \notin {Undefined, Null, ""}

\* positions in the call history of the operations in ops
CallsOf(ops) == {i \in 1..Len(calls) : calls[i].op \in ops}

\* the run has left the statement at pc value p behind
Past(ps) == pc \notin ps

\* the override is unset or empty
OverrideEmpty == ~NonEmpty(env.OVERRIDE_GITHUB_TOKEN)

\* both App credentials are configured
AppConfigured ==
    NonEmpty(env.REHEARSAL_APP_ID) /\ NonEmpty(env.REHEARSAL_APP_PRIVATE_KEY)

\* the run is in the failure state: setFailed, then exit with status 1
FailureState == pc = "exited" /\ Len(failed) = 1 /\ exitCode = <<1>>

\* a sequence of fragments contains the fragment f
Contains(msg, f) == \E i \in 1..Len(msg) : msg[i] = f

\* C1: with a non-empty override T, once the override has been examined the
\* run has returned T, has published T under GITHUB_TOKEN, and has performed
\* no network operation, whatever the App credentials and the repository are
C1_OverrideWins ==
    (NonEmpty(env.OVERRIDE_GITHUB_TOKEN) /\ pc # "setupGitHubToken") =>
        /\ pc = "returned"
        /\ returned = env.OVERRIDE_GITHUB_TOKEN
        /\ outputs = <<Output("GITHUB_TOKEN", env.OVERRIDE_GITHUB_TOKEN)>>
        /\ calls = <<>>
        /\ failed = <<>> /\ exitCode = <<>>

\* C1 witness: the override returned although the App credentials are set
\* and the repository is missing
C1_Witness ==
    /\ env.OVERRIDE_GITHUB_TOKEN = "ghp_override"
    /\ AppConfigured
    /\ env.GITHUB_REPOSITORY = Undefined
    /\ pc = "returned"

\* the case of C2: override unset, App credentials configured, no repository
C2_Case == OverrideEmpty /\ AppConfigured /\ ~NonEmpty(env.GITHUB_REPOSITORY)

\* C2 as stated: with the override unset, both App credentials configured
\* and GITHUB_REPOSITORY absent or empty, the run ends in the failure state
\* and Strategy C is never attempted
C2_Original ==
    C2_Case => /\ CallsOf(StrategyCOps) = {}
               /\ pc # "returned"
               /\ (Past({"setupGitHubToken", "generateRehearsalAppToken",
                         "getInstallationId"}) => FailureState)

\* C2 amended: with the override unset, both App credentials configured and
\* GITHUB_REPOSITORY absent or empty, Strategy B catches the missing
\* repository, declines with the empty string without App authentication,
\* lookup or mint, and the run goes on to Strategy C; it fails only if
\* Strategy C fails
C2_Amended ==
    (C2_Case /\ Past({"setupGitHubToken", "generateRehearsalAppToken",
                      "getInstallationId"})) =>
        /\ caught = <<MkError("Error",
                        "GITHUB_REPOSITORY environment variable not found")>>
        /\ rehearsalToken = ""
        /\ CallsOf(StrategyBOps) = {}
        /\ pc \in {"getOidcToken", "exchangeForAppToken", "returned", "exited"}
        /\ (pc # "getOidcToken" => CallsOf({"getIDToken"}) # {})
        /\ (pc = "exited" =>
                thrown.origin \in {"getOidcToken", "exchangeForAppToken"})

\* C2 witness: a run without repository context that returned the
\* credential of Strategy C
C2_Witness ==
    /\ C2_Case
    /\ pc = "returned"
    /\ Len(caught) = 1
    /\ CallsOf({"tokenExchange"}) # {}

\* C3: whenever setFailed has been called or the process has exited, the run
\* is in the failure state, the override was empty, Strategy B returned the
\* empty string, and the failure came from the OIDC request or the token
\* exchange; every failure raised inside Strategy B was caught there
C3_OnlyStrategyCTerminates ==
    (failed # <<>> \/ exitCode # <<>> \/ pc = "exited") =>
        /\ FailureState
        /\ OverrideEmpty
        /\ rehearsalToken = ""
        /\ thrown.origin \in {"getOidcToken", "exchangeForAppToken"}
        /\ failed = <<SetFailedMessage(thrown.error)>>
        /\ calls # <<>>
        /\ calls[Len(calls)].op \in StrategyCOps
        /\ ~calls[Len(calls)].ok
        /\ \A i \in CallsOf(StrategyBOps) :
              ~calls[i].ok => (Len(caught) = 1 /\ thrown.error # caught[1])

\* C3 witness: a failure exit in a run whose installation lookup had failed
C3_Witness ==
    /\ FailureState
    /\ Len(caught) = 1
    /\ \E i \in CallsOf({"installationLookup"}) : ~calls[i].ok

\* C4: once App authentication, the installation lookup or the mint has
\* failed, Strategy B has returned the empty string without raising (the
\* error was caught, no failure was reported for it), no further Strategy B
\* operation follows, and the run is at or past the OIDC request, which has
\* been made as soon as the run is past it
C4_StrategyBFailureDeclines ==
    \A i \in CallsOf(StrategyBOps) :
        ~calls[i].ok =>
            /\ OverrideEmpty /\ AppConfigured
            /\ rehearsalToken = ""
            /\ Len(caught) = 1
            /\ \A j \in CallsOf(StrategyBOps) : j <= i
            /\ pc \in {"getOidcToken", "exchangeForAppToken", "returned", "exited"}
            /\ (pc # "getOidcToken" =>
                    \E j \in CallsOf({"getIDToken"}) : j > i)
            /\ (pc = "exited" =>
                    thrown.origin \in {"getOidcToken", "exchangeForAppToken"})

\* C4 witness: the lookup answered 404 and the OIDC request was then made
C4_Witness ==
    /\ Len(caught) = 1
    /\ caught[1].message = "404"
    /\ \E i \in CallsOf({"installationLookup"}) : ~calls[i].ok
    /\ CallsOf({"getIDToken"}) # {}

\* the installation lookup and the mint both succeeded with a non-empty token
C5_Case ==
    /\ OverrideEmpty /\ AppConfigured
    /\ \E i \in CallsOf({"installationLookup"}) : calls[i].ok
    /\ \E i \in CallsOf({"installationMint"}) : calls[i].ok
    /\ NonEmpty(rehearsalToken)

\* C5: when the lookup and the mint both succeed with a non-empty token M,
\* M is returned and published and neither the OIDC request nor the token
\* exchange is ever invoked
C5_MintedTokenWins ==
    C5_Case =>
        /\ pc = "returned"
        /\ returned = rehearsalToken
        /\ returned \in MintTokens
        /\ outputs = <<Output("GITHUB_TOKEN", rehearsalToken)>>
        /\ CallsOf(StrategyCOps) = {}
        /\ failed = <<>> /\ exitCode = <<>>

\* C5 witness: the minted token was returned
C5_Witness == C5_Case /\ returned = "ghs_minted" /\ installationId = 42

\* the case of C6: override unset and an App credential absent or empty
C6_Case == OverrideEmpty /\ ~AppConfigured

\* C6: with the override unset and an App credential missing, Strategy B
\* declines without App authentication, lookup or mint and without reading
\* GITHUB_REPOSITORY; the only network operations are the OIDC requests
\* followed by the token exchanges
C6_MissingCredentialsOnlyStrategyC ==
    C6_Case =>
        /\ CallsOf(StrategyBOps) = {}
        /\ "GITHUB_REPOSITORY" \notin envReads
        /\ caught = <<>>
        /\ pc \notin {"getInstallationId", "appAuth", "installationLookup",
                      "installationMint"}
        /\ (Past({"setupGitHubToken", "generateRehearsalAppToken"}) =>
                rehearsalToken = "")
        /\ \A i \in 1..Len(calls) : calls[i].op \in StrategyCOps
        /\ \A i \in CallsOf({"tokenExchange"}) :
              \A j \in CallsOf({"getIDToken"}) : j < i
        /\ (pc \in {"exchangeForAppToken", "returned", "exited"} =>
                CallsOf({"getIDToken"}) # {})

\* C6 witness: only the private key is missing, the repository is missing
\* too, and the run returned the credential of Strategy C
C6_Witness ==
    /\ C6_Case
    /\ NonEmpty(env.REHEARSAL_APP_ID)
    /\ env.GITHUB_REPOSITORY = Undefined
    /\ pc = "returned"
    /\ CallsOf({"tokenExchange"}) # {}

\* every OIDC request made so far has failed, and the run is past them
C7_Case ==
    /\ CallsOf({"getIDToken"}) # {}
    /\ \A i \in CallsOf({"getIDToken"}) : ~calls[i].ok
    /\ pc # "getOidcToken"

\* C7: when the OIDC request has failed on every attempt of the retry
\* helper, the run is in the failure state: setFailed was called once with a
\* message naming both remediation paths, the exit status is 1, no output is
\* published and no credential is returned
C7_OidcExhaustedFails ==
    C7_Case =>
        /\ FailureState
        /\ Contains(failed[1], RemediationRehearsalApp)
        /\ Contains(failed[1], RemediationOidc)
        /\ outputs = <<>>
        /\ returned = Undefined
        /\ CallsOf({"tokenExchange"}) = {}
        /\ Cardinality(CallsOf({"getIDToken"})) = MaxAttempts

\* C7 witness: the failure exit after the last failed OIDC attempt
C7_Witness ==
    /\ C7_Case
    /\ thrown.origin = "getOidcToken"
    /\ lastIdToken.threw

\* the result of the first strategy, in the order Override, App
\* installation, OIDC exchange, that produced a non-empty result
FirstNonEmptyResult ==
    IF NonEmpty(env.OVERRIDE_GITHUB_TOKEN) THEN env.OVERRIDE_GITHUB_TOKEN
    ELSE IF NonEmpty(rehearsalToken) THEN rehearsalToken
    ELSE lastExchange.result.value

\* C8: GITHUB_TOKEN is published at most once; a returned credential is
\* non-empty, is the one published value, and is the result of the first
\* strategy that produced a non-empty result; no later strategy is started
\* once an earlier one has produced a non-empty result
C8_FirstNonEmptyResult ==
    /\ Len(outputs) <= 1
    /\ \A i \in 1..Len(outputs) : outputs[i].name = "GITHUB_TOKEN"
    /\ (outputs # <<>> <=> returned # Undefined)
    /\ (returned # Undefined =>
            /\ NonEmpty(returned)
            /\ pc = "returned"
            /\ outputs = <<Output("GITHUB_TOKEN", returned)>>
            /\ returned = FirstNonEmptyResult)
    /\ (NonEmpty(env.OVERRIDE_GITHUB_TOKEN) =>
            /\ calls = <<>>
            /\ rehearsalToken = Undefined
            /\ envReads \subseteq {"OVERRIDE_GITHUB_TOKEN"})
    /\ (NonEmpty(rehearsalToken) =>
            CallsOf(StrategyCOps) = {} /\ oidcToken = Undefined)

\* C8 witness: the mint yielded an empty token and the run returned the
\* credential of the exchange
C8_Witness ==
    /\ returned # Undefined
    /\ rehearsalToken = ""
    /\ caught = <<>>
    /\ \E i \in CallsOf({"installationMint"}) : calls[i].ok
    /\ returned = lastExchange.result.value

\* the error exchangeForAppToken raises when the response carries no token
TokenNotFound == MkError("Error", "App token not found in response")

\* what C9 states exchangeForAppToken yields for the body of an HTTP ok
\* response: token if present and non-empty, else app_token if present and
\* non-empty, else the token-not-found error
C9_Stated(body) ==
    IF body.kind = "object" /\ NonEmpty(body.token) THEN Return(body.token)
    ELSE IF body.kind = "object" /\ NonEmpty(body.app_token)
         THEN Return(body.app_token)
    ELSE Throw(TokenNotFound)

\* the last exchange attempt received an HTTP ok response
C9_Case == lastExchange.made /\ lastExchange.fetched /\ lastExchange.resp.ok

\* C9 as stated: for every HTTP ok exchange response exchangeForAppToken
\* returns token when present and non-empty, otherwise app_token when
\* present and non-empty, and otherwise raises the token-not-found error
C9_Original ==
    C9_Case => lastExchange.result = C9_Stated(lastExchange.resp.body)

\* C9 amended: for every HTTP ok exchange response whose body parses to a
\* JSON object, exchangeForAppToken returns token when present and
\* non-empty, otherwise app_token when present and non-empty, and otherwise
\* raises the token-not-found error; for an HTTP ok response whose body is
\* not JSON or is the JSON value null it raises the parse error or type
\* error of reading that body, and no credential is produced; a run returns
\* the exchange's credential only when the attempt returned it
C9_Amended ==
    C9_Case =>
        /\ (lastExchange.resp.body.kind = "object" =>
                lastExchange.result = C9_Stated(lastExchange.resp.body))
        /\ (lastExchange.resp.body.kind # "object" =>
                /\ lastExchange.result.threw
                /\ lastExchange.result.error \in {JsonSyntaxError, NullTypeError}
                /\ lastExchange.result.error # TokenNotFound
                /\ returned = Undefined)
        /\ (~lastExchange.result.threw =>
                returned = lastExchange.result.value /\ NonEmpty(returned))

\* C9 witness: a body carrying an empty token and app_token "abc123"
\* resolved to the credential "abc123"
C9_Witness ==
    /\ C9_Case
    /\ lastExchange.resp.body.kind = "object"
    /\ lastExchange.resp.body.token = ""
    /\ lastExchange.resp.body.app_token = "abc123"
    /\ returned = "abc123"

\* the body has the shape { error: { message: <string> } }
C10_ExpectedShape(body) ==
    /\ body.kind = "object"
    /\ body.error = "object"
    /\ body.message \notin {Undefined, Null}

\* C10 as stated: for every non-success HTTP response exchangeForAppToken
\* raises an error whose message is the body's error.message when the body
\* has that shape and "Unknown error" for every body that has not (error
\* missing, message missing, body not parseable as the expected object), and
\* no credential is produced
C10_Claim ==
    (lastExchange.made /\ lastExchange.fetched /\ ~lastExchange.resp.ok) =>
        /\ lastExchange.result.threw
        /\ lastExchange.result.value = Undefined
        /\ lastExchange.result.error.message =
              IF C10_ExpectedShape(lastExchange.resp.body)
              THEN lastExchange.resp.body.message
              ELSE "Unknown error"

\* C11 as stated: in a single run a given OIDC token is presented to the
\* token-exchange endpoint at most once, also when the exchange fails and
\* is retried
C11_Original ==
    \A i \in CallsOf({"tokenExchange"}) :
        \A j \in CallsOf({"tokenExchange"}) :
            calls[i].arg = calls[j].arg => i = j

\* C11 amended: in a single run exactly one OIDC token, the one the OIDC
\* request returned, is presented to the token-exchange endpoint; it is
\* presented once in each exchange attempt, so again in every retry of a
\* failed exchange, and at most as many times as the retry helper attempts
C11_Amended ==
    /\ \A i \in CallsOf({"tokenExchange"}) :
          /\ calls[i].arg = oidcToken
          /\ calls[i].arg \in OidcTokens
          /\ (i < Len(calls) => ~calls[i].ok /\ calls[i + 1].op = "tokenExchange")
    /\ Cardinality(CallsOf({"tokenExchange"})) <= MaxAttempts
    /\ (pc = "exchangeForAppToken" =>
            Cardinality(CallsOf({"tokenExchange"})) = attempt)

\* C11 witness: the exchange failed and its retry presented the same token
C11_Witness ==
    \E i \in CallsOf({"tokenExchange"}) :
        /\ i < Len(calls)
        /\ ~calls[i].ok
        /\ calls[i + 1].op = "tokenExchange"
        /\ calls[i + 1].arg = calls[i].arg
        /\ calls[i].arg = "jwt2"

\* the run has ended: a credential was returned or the process exited
Terminated == pc \in {"returned", "exited"}

\* the failure of the last attempt made in the run
LastAttemptError ==
    IF calls # <<>> /\ calls[Len(calls)].op = "tokenExchange"
    THEN lastExchange.result.error
    ELSE OidcPermissionError

\* the attempt bound and the propagation of the last failure
C12_BoundedAttempts ==
    /\ Cardinality(CallsOf({"getIDToken"})) <= MaxAttempts
    /\ Cardinality(CallsOf({"tokenExchange"})) <= MaxAttempts
    /\ (pc = "returned" => returned # Undefined /\ failed = <<>>)
    /\ (pc = "exited" =>
            /\ calls # <<>>
            /\ ~calls[Len(calls)].ok
            /\ Cardinality(CallsOf({calls[Len(calls)].op})) = MaxAttempts
            /\ thrown.error = LastAttemptError
            /\ failed = <<SetFailedMessage(LastAttemptError)>>
            /\ returned = Undefined)

\* C12: when every network call eventually returns or fails, every run
\* ends, by returning a credential or in the failure exit; each of the two
\* Strategy C calls is attempted at most the retry helper's attempt count,
\* and the failure that reaches the top level is that of the last attempt
C12_Terminates == <>Terminated /\ []C12_BoundedAttempts

\* C12 witness: the failure exit after the last allowed exchange attempt
\* failed with the endpoint's own error message
C12_Witness ==
    /\ pc = "exited"
    /\ Cardinality(CallsOf({"tokenExchange"})) = MaxAttempts
    /\ thrown.error = MkError("Error", "bad audience")
    /\ lastExchange.result.error = thrown.error

\* C13: App authentication, the installation lookup and the mint are each
\* attempted at most once in a run, outside the retry helper, so that one
\* failure of any of them is at once followed by Strategy B's decline and
\* the OIDC request; only the OIDC request and the token exchange are
\* attempted again after a failure
C13_OnlyStrategyCRetried ==
    /\ \A op \in StrategyBOps : Cardinality(CallsOf({op})) <= 1
    /\ (pc \in {"appAuth", "installationLookup", "installationMint"} =>
            attempt = 0)
    /\ \A i \in CallsOf(StrategyBOps) :
          ~calls[i].ok =>
              /\ rehearsalToken = ""
              /\ pc \notin {"appAuth", "installationLookup", "installationMint"}
              /\ (i < Len(calls) => calls[i + 1].op = "getIDToken")
    /\ \A i \in 1..Len(calls) :
          (i < Len(calls) /\ calls[i + 1].op = calls[i].op) =>
              (calls[i].op \in StrategyCOps /\ ~calls[i].ok)

\* C13 witness: after a failed installation lookup, made once, the OIDC
\* request and the token exchange were each attempted twice
C13_Witness ==
    /\ \E i \in CallsOf({"installationLookup"}) : ~calls[i].ok
    /\ Cardinality(CallsOf({"installationLookup"})) = 1
    /\ Cardinality(CallsOf({"getIDToken"})) = 2
    /\ Cardinality(CallsOf({"tokenExchange"})) = 2

\* the OIDC requests of the run that succeeded
SuccessfulOidcRequests == {j \in CallsOf({"getIDToken"}) : calls[j].ok}

\* C14: the OIDC requests all precede the first exchange attempt; at most
\* one OIDC request succeeds and it is the last one; every exchange attempt
\* carries the token that request returned; without a successful OIDC
\* request the exchange endpoint is never contacted
C14_OidcBeforeExchange ==
    /\ \A i \in CallsOf({"tokenExchange"}) :
          /\ \A j \in CallsOf({"getIDToken"}) : j < i
          /\ ~lastIdToken.threw
          /\ calls[i].arg = lastIdToken.value
    /\ Cardinality(SuccessfulOidcRequests) <= 1
    /\ \A j \in SuccessfulOidcRequests :
          \A k \in CallsOf({"getIDToken"}) : k <= j
    /\ (SuccessfulOidcRequests = {} =>
            CallsOf({"tokenExchange"}) = {} /\ pc # "exchangeForAppToken")
    /\ (SuccessfulOidcRequests # {} =>
            pc \in {"exchangeForAppToken", "returned", "exited"})

\* C14 witness: a failed and then a successful OIDC request, followed by a
\* failed exchange and its retry with the same token, and no further OIDC
\* request
C14_Witness ==
    /\ Len(calls) >= 4
    /\ calls[Len(calls) - 3].op = "getIDToken" /\ ~calls[Len(calls) - 3].ok
    /\ calls[Len(calls) - 2].op = "getIDToken" /\ calls[Len(calls) - 2].ok
    /\ calls[Len(calls) - 1].op = "tokenExchange" /\ ~calls[Len(calls) - 1].ok
    /\ calls[Len(calls)].op = "tokenExchange"
    /\ calls[Len(calls)].arg = lastIdToken.value

\* C15: whatever error core.getIDToken raises, getOidcToken raises the one
\* fixed error naming the id-token: write permission; when every OIDC
\* attempt has failed, the message given to setFailed carries that error and
\* not the underlying cause
C15_FixedPermissionError ==
    /\ \A o \in IdTokenOutcomes :
          o.threw => getOidcToken(o) = Throw(OidcPermissionError)
    /\ (C7_Case /\ pc = "exited") =>
          /\ lastIdToken.threw
          /\ lastIdToken.error.message \in OidcCauses
          /\ Len(failed) = 1
          /\ Contains(failed[1], OidcPermissionError.message)
          /\ \A c \in OidcCauses : ~Contains(failed[1], c)
          /\ thrown.error # lastIdToken.error

\* C15 witness: the failure exit after core.getIDToken failed for want of
\* the request URL, reported with the permission hint
C15_Witness ==
    /\ pc = "exited"
    /\ thrown.origin = "getOidcToken"
    /\ lastIdToken.threw
    /\ lastIdToken.error.message =
          "Unable to get ACTIONS_ID_TOKEN_REQUEST_URL env variable"
    /\ Contains(failed[1], OidcPermissionError.message)

\* C16: an override that is unset or set to the empty string makes the run
\* go on to Strategy B with nothing published, returned or called; a mint
\* that fails or that yields the empty token leaves Strategy B's result
\* empty and makes the run go on to the OIDC request with nothing published,
\* returned or reported; the empty string is never published
C16_EmptinessDeclines ==
    [][ /\ (pc = "setupGitHubToken" /\ env.OVERRIDE_GITHUB_TOKEN \in {Undefined, ""}) =>
              /\ pc' = "generateRehearsalAppToken"
              /\ outputs' = outputs /\ returned' = returned /\ calls' = calls
        /\ (pc = "installationMint" /\ rehearsalToken' \in {Undefined, ""}) =>
              /\ rehearsalToken' = ""
              /\ pc' = "getOidcToken"
              /\ outputs' = outputs /\ returned' = returned
              /\ failed' = failed /\ exitCode' = exitCode
        /\ \A i \in 1..Len(outputs') : outputs'[i].value # ""
      ]_vars

\* C16 witness: the override was the empty string, the mint succeeded with
\* an empty token, and the OIDC request was made next
C16_Witness ==
    /\ env.OVERRIDE_GITHUB_TOKEN = ""
    /\ rehearsalToken = ""
    /\ caught = <<>>
    /\ Len(calls) >= 4
    /\ calls[3].op = "installationMint" /\ calls[3].ok
    /\ calls[4].op = "getIDToken"
    /\ outputs = <<>>

====
